---- MODULE Spec2Model ----
(***************************************************************************)
(* The asynchronous photo-annotation pipeline of the Momento backend:      *)
(* HybridAIService.process_photo_simple (the "Run"), the upload handler    *)
(* that schedules it, and PhotoService.update_photo_ai_data, which stores  *)
(* the caption, the colors and the tag associations of a result.           *)
(*                                                                         *)
(* The relational store is modelled at READ COMMITTED: every session sees  *)
(* the committed rows plus its own flushed rows; a commit applies the      *)
(* session's writes atomically; an INSERT that conflicts with a row another*)
(* open transaction has flushed waits for that transaction to end.         *)
(* Texts that are only stored and compared are tokens; an exception text   *)
(* is modelled by its length in characters, which is all the code uses.    *)
(***************************************************************************)
EXTENDS Integers, Sequences, FiniteSets, TLC

\* ---------------------------------------------------------------- bounds
MaxPhotos == 1
MaxRuns == 2
MaxErrLen == 501
MaxCalls == 2
MaxStrLen == 3
MaxEdge == 10
MaxDelta == 2

\* ------------------------------------------------------- program constants
\* hybrid_ai_service.py:146   photo.ai_error = str(e)[:500]
ErrorTextLimit == 500
\* hybrid_ai_service.py:191   confidence of every API tag (0.9, in percent)
ApiConfidence == 90
\* hybrid_ai_service.py:285   confidence of the orientation tag (0.9)
GeometryConfidence == 90
\* hybrid_ai_service.py:295   confidence of the color tag (0.7)
ColorConfidence == 70
\* hybrid_ai_service.py:306, 308  confidence 0.6 of the complexity tag
ComplexityConfidence == 60
\* openai_service.py:33     _resize_image(image_path, max_size=1024)
max_size == 1024

PhotoIds == 1..MaxPhotos
RunIds == 1..MaxRuns
CallIds == 1..MaxCalls

\* Python None / SQL NULL of a text column
NULL == "NULL"
\* ai_error is stored as the length of its text; NoError is SQL NULL
NoError == -1
\* lengths of the exception texts str(e) the store can produce
ErrLens == {ErrorTextLimit, MaxErrLen}

\* Python truthiness of an Optional[str]
Truthy(v) == v \notin {NULL, ""}

Min(a, b) == IF a < b THEN a ELSE b

\* str(e)[:500]
Truncate(len) == Min(len, ErrorTextLimit)

\* d.get(k, default) on a dict modelled as a record
Get(d, k, default) == IF k \in DOMAIN d THEN d[k] ELSE default

\* an attribute the session has not assigned
Keep == "KEEP"

\* {} , the initial final_result
EmptyDict == [k \in {} |-> ""]

VARIABLES
    settings,    \* Settings: cv/api switches, provider, provider key present
    photos,      \* photos table: PhotoIds -> row
    tags,        \* tags table: set of rows [id, name, category]
    photo_tags,  \* photo_tags table: set of rows [photo_id, tag_id, source, confidence]
    run,         \* RunIds -> the activation record of one process_photo_simple call
    response,    \* PhotoIds -> the response of the upload request that stored the photo
    manual,      \* CallIds -> the activation record of one add_photo_tags call
    adapter,     \* the reply OpenAIService.analyze_image is parsing, and its tags
    cv,          \* the image the local analyzer works on, and what it made of it
    api_image    \* the image OpenAIService.analyze_image read, and the one it encodes

vars == <<settings, photos, tags, photo_tags, run, response, manual, adapter, cv, api_image>>

\* ------------------------------------------------------------------ config
\* config.py:119-129
is_ai_api_available ==
    IF ~settings.ai_api_enabled THEN FALSE
    ELSE IF settings.ai_api_provider = "qwen" THEN settings.provider_key
    ELSE IF settings.ai_api_provider = "openai" THEN settings.provider_key
    ELSE TRUE

\* config.py:37-50  the settings read from the environment; AI_MAX_WORKERS is
\* taken as 1, the smallest pool an operator can configure
Configs ==
    [ai_cv_enabled : BOOLEAN, ai_api_enabled : BOOLEAN,
     ai_api_provider : {"openai", "qwen", "local"}, provider_key : BOOLEAN,
     ai_max_workers : {1}]

\* ------------------------------------------------------------ stage results
\* _process_with_cv on a loadable image: caption, colors, tags (no category key)
LocalTags ==
    << [name |-> "landscape", confidence |-> GeometryConfidence],
       [name |-> "red", confidence |-> ColorConfidence] >>

LocalResult ==
    [caption |-> "A", colors |-> "local5", tags |-> LocalTags,
     source |-> "traditional_cv"]

\* _load_image returned None
ImageLoadFailed == [error |-> "image load failed"]

\* hybrid_ai_service.py:154-175
_process_with_cv(image_path) ==
    IF image_path = "missing" THEN ImageLoadFailed ELSE LocalResult

\* what the provider can answer to requests.post (openai_service.py:116): a
\* 200 whose message content is the JSON object asked for, a 200 whose
\* content is prose (a refusal, or any text json.loads rejects), a non-200
\* status, or no answer at all (status 0: transport error, timeout)
RefusalText == "sorry"

ProviderReplies ==
    { [status |-> 200, kind |-> "json", description |-> "B", colors |-> "warm",
       tags |-> <<"cat", "dog">>, category |-> "animal"],
      [status |-> 200, kind |-> "json", description |-> "B", colors |-> "",
       tags |-> <<"red">>, category |-> "other"],
      [status |-> 200, kind |-> "json", description |-> "", colors |-> "",
       tags |-> <<>>, category |-> "other"],
      [status |-> 200, kind |-> "text", content |-> RefusalText],
      [status |-> 500, kind |-> "text", content |-> "error"],
      [status |-> 0, kind |-> "none"] }

\* openai_service.py:195-220  a content with no description line and no tags
\* line: the content itself is the description
_parse_text_response(content) ==
    [success |-> TRUE, description |-> content, colors |-> "", tags |-> <<>>,
     category |-> "other"]

\* openai_service.py:116-186  the result of analyze_image for a reply
analyze_image(reply) ==
    IF reply.status = 0 THEN [success |-> FALSE, error |-> "timeout"]
    ELSE IF reply.status = 200
    THEN IF reply.kind = "json"
         THEN [success |-> TRUE, description |-> reply.description,
               colors |-> reply.colors, tags |-> reply.tags,
               category |-> reply.category]
         ELSE _parse_text_response(reply.content)
    ELSE [success |-> FALSE, error |-> "status"]

\* what OpenAIService.analyze_image can return
AnalyzeOutcomes == { analyze_image(reply) : reply \in ProviderReplies }

\* hybrid_ai_service.py:191
ApiTags(names) == [i \in 1..Len(names) |-> [name |-> names[i], confidence |-> ApiConfidence]]

\* hybrid_ai_service.py:177-213: every failure is returned as {"error": ...}
_process_with_api(result) ==
    IF settings.ai_api_provider = "openai" /\ settings.provider_key
    THEN IF Get(result, "success", FALSE)
         THEN [caption |-> Get(result, "description", ""),
               tags |-> ApiTags(Get(result, "tags", <<>>)),
               colors |-> Get(result, "colors", ""),
               category |-> Get(result, "category", "other"),
               source |-> "openai_api"]
         ELSE [error |-> "openai failed"]
    ELSE IF settings.ai_api_provider = "qwen" /\ settings.provider_key
    THEN [error |-> "qwen not implemented"]
    ELSE [error |-> "provider not configured"]

\* hybrid_ai_service.py:83   final_result and not final_result.get('error')
Usable(result) == DOMAIN result # {} /\ ~Truthy(Get(result, "error", NULL))

\* ---------------------------------------------------------------- records
NoRow ==
    [exists |-> FALSE, user_id |-> 0, filename |-> NULL, storage_path |-> NULL,
     exif_data |-> NULL, taken_at |-> NULL,
     ai_status |-> NULL, ai_error |-> NoError,
     caption |-> NULL, dominant_colors |-> NULL, updated_at |-> NULL]

\* an UPDATE that stamps the shooting time instead of the modification time
WrittenTakenAt(old, new) == IF new = old THEN old ELSE [new EXCEPT !.taken_at = "updated"]

\* models.py:50  updated_at has onupdate=func.now(): an UPDATE of the row that
\* changes a column also stamps updated_at; a commit with no changed
\* attribute sends no UPDATE
Written(old, new) == IF new = old THEN old ELSE [new EXCEPT !.updated_at = "updated"]

\* the ai_status and ai_error a session holds for the photo it has loaded
NotLoaded == [ai_status |-> NULL, ai_error |-> NoError]
Loaded(row) == [ai_status |-> row.ai_status, ai_error |-> row.ai_error]

\* the flush of a commit sends an UPDATE with the attributes whose value
\* differs from the loaded one, and no other column of the row
ChangedOnly(row, seen, new) ==
    [row EXCEPT !.ai_status = IF new.ai_status = seen.ai_status THEN @ ELSE new.ai_status,
                !.ai_error = IF new.ai_error = seen.ai_error THEN @ ELSE new.ai_error]

IdleRun ==
    [pc |-> "idle", photo_id |-> 0, image_path |-> "",
     api_result |-> EmptyDict, final_result |-> EmptyDict, err |-> 0,
     raised |-> FALSE, update_ok |-> FALSE, update_error |-> "none",
     seen |-> NotLoaded,
     i |-> 0, tx_caption |-> Keep, tx_colors |-> Keep,
     tx_tags |-> {}, tx_flushed |-> {}, tx_pending |-> <<>>]

\* the activation record of an add_photo_tags call: the rows its session
\* holds for the commit
IdleCall == [pc |-> "idle", photo_id |-> 0, pending |-> {}]

\* the local analyzer has no image
NoImage ==
    [pc |-> "idle", image |-> [width |-> 0, height |-> 0, colors |-> <<>>],
     caption |-> <<>>, colors |-> <<>>, tags |-> <<>>]

\* no reply is being parsed
NoReply == [pc |-> "idle", raw |-> [kind |-> "other", value |-> <<>>], tags |-> <<>>]

\* no image has been prepared for the provider
NoApiImage == [pc |-> "idle", width |-> 0, height |-> 0, failed |-> FALSE,
               sent |-> [width |-> 0, height |-> 0]]

Init ==
    /\ settings \in Configs
    /\ photos = [p \in PhotoIds |-> NoRow]
    /\ tags = {}
    /\ photo_tags = {}
    /\ run = [r \in RunIds |-> IdleRun]
    /\ response = [p \in PhotoIds |-> "none"]
    /\ manual = [m \in CallIds |-> IdleCall]
    /\ adapter = NoReply
    /\ cv = NoImage
    /\ api_image = NoApiImage

\* ------------------------------------------------------------ store helpers
TagNames == {"landscape", "red", "blue", "cat", "dog"}

\* primary key of a photo_tags row (models.py:104-106)
Key(pt) == <<pt.photo_id, pt.tag_id, pt.source>>

\* rows another open transaction has flushed and not yet committed
OtherTxTags(r) == UNION { run[o].tx_tags : o \in RunIds \ {r} }
OtherTxFlushed(r) == UNION { run[o].tx_flushed : o \in RunIds \ {r} }

\* tags.id is a sequence value; the model hands out the smallest id no
\* committed or flushed row uses
UsedTagIds == { t.id : t \in tags \cup UNION { run[o].tx_tags : o \in RunIds } }
NewTagId == CHOOSE n \in 1..(Cardinality(TagNames) + MaxRuns) : n \notin UsedTagIds

SeqToSet(s) == { s[k] : k \in DOMAIN s }

\* a photo_tags table without its primary key
NoUniqueKeys(new, stored) == TRUE

\* models.py:104-106  the primary key (photo_id, tag_id, source): the rows
\* `new` can be INSERTed next to the rows `stored`
UniqueKeys(new, stored) == \A n \in new : \A row \in stored : Key(row) # Key(n)

\* models.py:109  created_at is set by the INSERT (server_default now()): it
\* tells rows stored at different times apart. The model keeps of it how many
\* rows with the same key were stored before the row
Stored(new, stored) ==
    { [n EXCEPT !.created_at = Cardinality({ row \in stored : Key(row) = Key(n) })] :
        n \in new }

\* the pending photo_tags rows of r can be INSERTed: no two of them share a
\* key and none collides with a committed row or a row r flushed earlier
PendingInsertable(r, pending) ==
    /\ \A j, k \in DOMAIN pending : j # k => Key(pending[j]) # Key(pending[k])
    /\ UniqueKeys(SeqToSet(pending), photo_tags \cup run[r].tx_flushed)

\* an INSERT waits while another open transaction holds the same key
PendingBlocked(r, pending) ==
    \E k \in DOMAIN pending : \E row \in OtherTxFlushed(r) : Key(row) = Key(pending[k])

\* an except clause that leaves the session as it is
NoRollback(rec) == rec

\* db.rollback(): the session's flushed and pending writes are discarded
Rollback(rec) ==
    [rec EXCEPT !.i = 0, !.tx_caption = Keep, !.tx_colors = Keep,
                !.tx_tags = {}, !.tx_flushed = {}, !.tx_pending = <<>>]

\* photo_service.py:337-340   except: rollback; return False
\* hybrid_ai_service.py:93 ignores the returned value and goes on to line 102
UpdateReturns(rec, ok) ==
    [Rollback(rec) EXCEPT !.update_ok = ok, !.pc = "set_completed"]

\* photo_service.py:337-340  the exception e the except clause caught: "db"
\* when the database failed the statement, "integrity" for a unique or
\* primary key violation, "stale" when the UPDATE matched no row
UpdateRaises(rec, e) == [UpdateReturns(rec, FALSE) EXCEPT !.update_error = e]

\* a handler that lets the failure of its own status write escape
ReraiseUpdateError(rec, next) == [rec EXCEPT !.pc = "done", !.raised = TRUE]

\* hybrid_ai_service.py:126-127, 149-150: a failure of the status write
\* inside a handler is swallowed and the Run goes on to `next`
SwallowUpdateError(rec, next) == [rec EXCEPT !.pc = next]

\* the activation records are interchangeable: a call takes the first free one
FreeSlot(r) == run[r].pc = "idle" /\ \A o \in RunIds : o < r => run[o].pc # "idle"

\* the Run has returned: its locals are gone
Returned(rec, raised) == [IdleRun EXCEPT !.pc = "done", !.raised = raised]

\* ------------------------------------------------------------------ upload
UserIds == {1, 2}

\* what a request carries: a caption and a shooting time in the EXIF data, or
\* neither
UploadForms == { [caption |-> NULL, taken_at |-> NULL],
                 [caption |-> "U", taken_at |-> "t"] }

\* photo_service.py:36-102  create_photo: the row as INSERTed; ai_status
\* takes the column default (models.py:57)
create_photo(user_id, filename, storage_path, caption, exif_data) ==
    [exists |-> TRUE, user_id |-> user_id, filename |-> filename,
     storage_path |-> storage_path, exif_data |-> exif_data, taken_at |-> NULL,
     ai_status |-> "pending", ai_error |-> NoError,
     caption |-> caption, dominant_colors |-> NULL, updated_at |-> "created"]

\* photos.id is a sequence value: a new row takes the smallest id not yet used
NewPhotoId(p) == ~photos[p].exists /\ \A q \in PhotoIds : q < p => photos[q].exists

\* a call that runs the task inside the handler, before the response
TaskStartsAtOnce(r) == TRUE

\* photos.py:152  background_tasks.add_task: the task starts only after the
\* response of the request has been produced
TaskMayStart(r) == response[run[r].photo_id] = "sent"

\* photos.py:125-156  create_photo, the taken_at commit, then
\* background_tasks.add_task(Run).
\* AIService() may raise while loading its models: then no task is added
upload_photo(p, r) ==
    /\ NewPhotoId(p)
    /\ FreeSlot(r)
    /\ \E form \in UploadForms, scheduled \in BOOLEAN :
          LET photo == create_photo(1, "f.jpg", "ok", form.caption, "exif")
          IN /\ photos' = [photos EXCEPT ![p] =
                    IF Truthy(form.taken_at)
                    THEN Written(photo, [photo EXCEPT !.taken_at = form.taken_at])
                    ELSE photo]
             /\ run' = IF scheduled
                       THEN [run EXCEPT ![r] = [IdleRun EXCEPT !.pc = "scheduled",
                                                !.photo_id = p, !.image_path = "ok"]]
                       ELSE run
    /\ response' = [response EXCEPT ![p] = "pending"]
    /\ UNCHANGED <<settings, tags, photo_tags, manual, adapter, cv, api_image>>

\* photos.py:160-165  return UploadResponse(...)
Respond(p) ==
    /\ response[p] = "pending"
    /\ response' = [response EXCEPT ![p] = "sent"]
    /\ UNCHANGED <<settings, photos, tags, photo_tags, run, manual, adapter, cv, api_image>>

\* photos.py:175-242  upload_photos_batch: one iteration of the loop over the
\* files (each create_photo commits on its own); no task is added
upload_photos_batch(p) ==
    /\ NewPhotoId(p)
    /\ photos' = [photos EXCEPT ![p] = create_photo(1, "f.jpg", "ok", NULL, NULL)]
    /\ response' = [response EXCEPT ![p] = "sent"]
    /\ UNCHANGED <<settings, tags, photo_tags, run, manual, adapter, cv, api_image>>

\* photo_service.py:129-151  update_photo: caption and colors of the owner's
\* photo, updated_at set by hand
update_photo(p, user_id) ==
    /\ photos[p].exists /\ photos[p].user_id = user_id
    /\ \E caption \in {NULL, "U"} :
          photos' = [photos EXCEPT ![p] =
                       [@ EXCEPT !.caption = IF caption # NULL THEN caption ELSE @,
                                 !.updated_at = "updated"]]
    /\ UNCHANGED <<settings, tags, photo_tags, run, response, manual, adapter, cv, api_image>>

\* hybrid_ai_service.py:32  process_photo_simple(photo_id, image_path) called
\* again (a repeated Submit), for any photo id and any path
Submit(r, p) ==
    /\ FreeSlot(r)
    /\ \E path \in {"ok", "missing"} :
          run' = [run EXCEPT ![r] = [IdleRun EXCEPT !.pc = "claim",
                                     !.photo_id = p, !.image_path = path]]
    /\ UNCHANGED <<settings, photos, tags, photo_tags, response, manual, adapter, cv, api_image>>

\* ------------------------------------------------------ the local analyzer
\* a loaded image (hybrid_ai_service.py:215-227): its size in pixels and its
\* colours, the one that covers most pixels first. A colour stands for its
\* cluster centre and for the name _get_color_name gives it
Images ==
    [width : 1..MaxEdge, height : 1..MaxEdge,
     colors : {<<"red">>, <<"red", "blue">>, <<"blue", "red">>}]

\* hybrid_ai_service.py:255-274  _extract_dominant_colors(image, k): what the
\* call can return. cv2.kmeans needs at least k samples and raises
\* otherwise (the function then returns []); it starts from random centres
\* (KMEANS_RANDOM_CENTERS) and returns the k centres in no particular order:
\* the first can be the centre of any colour of the image
_extract_dominant_colors(image, k) ==
    IF image.width * image.height < k THEN {<<>>}
    ELSE { [i \in 1..k |-> IF i = 1 THEN c ELSE Head(image.colors)] :
             c \in SeqToSet(image.colors) }

\* a caption that calls an image of ratio 1.5 landscape
CaptionOrientationFrom15(width, height) ==
    IF 2 * width >= 3 * height THEN "landscape"
    ELSE IF 10 * width < 7 * height THEN "portrait"
    ELSE "square"

\* hybrid_ai_service.py:232-240  aspect_ratio = width / height compared with
\* 1.5 and 0.7
CaptionOrientation(width, height) ==
    IF 2 * width > 3 * height THEN "landscape"
    ELSE IF 10 * width < 7 * height THEN "portrait"
    ELSE "square"

\* hybrid_ai_service.py:229-253  _generate_simple_caption, with the colours
\* its _extract_dominant_colors(image, k=3) call returned
_generate_simple_caption(image, colors) ==
    [orientation |-> CaptionOrientation(image.width, image.height),
     color_desc |-> IF colors # <<>> THEN colors[1] ELSE "colorful",
     width |-> image.width, height |-> image.height]

\* hybrid_ai_service.py:276-311  _generate_simple_tags, with the colours its
\* _extract_dominant_colors(image, k=3) call returned and the outcome of the
\* edge-density test
_generate_simple_tags(image, colors, dense) ==
    << [name |-> IF 2 * image.width > 3 * image.height THEN "landscape"
                 ELSE IF 10 * image.width < 7 * image.height THEN "portrait"
                 ELSE "square",
        confidence |-> GeometryConfidence] >>
    \o (IF colors # <<>>
        THEN << [name |-> colors[1], confidence |-> ColorConfidence] >>
        ELSE <<>>)
    \o << [name |-> IF dense THEN "complex" ELSE "simple",
           confidence |-> ComplexityConfidence] >>

\* the image files of the model: "ok" is a landscape image of one colour,
\* "mixed" a landscape image that is mostly red and partly blue
ImageAt(image_path) ==
    [width |-> 4, height |-> 2,
     colors |-> IF image_path = "mixed" THEN <<"red", "blue">> ELSE <<"red">>]

\* hybrid_ai_service.py:154-175  what _process_with_cv can return for a file:
\* the tags are those _generate_simple_tags makes of the image (orientation
\* and colour; the complexity tag is left out as in LocalTags), caption and
\* colors stay the tokens of LocalResult
LocalResults(image_path) ==
    IF image_path = "missing" THEN {ImageLoadFailed}
    ELSE { [LocalResult EXCEPT
              !.tags = SubSeq(_generate_simple_tags(ImageAt(image_path), colors, FALSE), 1, 2)] :
             colors \in _extract_dominant_colors(ImageAt(image_path), 3) }

\* hybrid_ai_service.py:32  process_photo_simple(photo_id, image_path) called
\* for the file image_path
SubmitImage(r, p, image_path) ==
    /\ FreeSlot(r)
    /\ run' = [run EXCEPT ![r] = [IdleRun EXCEPT !.pc = "claim",
                                  !.photo_id = p, !.image_path = image_path]]
    /\ UNCHANGED <<settings, photos, tags, photo_tags, response, manual, adapter, cv, api_image>>

\* ----------------------------------------------------- process_photo_simple
\* a retry policy that puts a failed photo back in the queue
RequeuedStatus(stored) == IF stored = "failed" THEN "pending" ELSE "processing"

\* hybrid_ai_service.py:38-49  the status is set to processing whatever it was
ClaimedStatus(stored) == "processing"

\* hybrid_ai_service.py:38-58  the status write, then the local stage
Claim(r) ==
    /\ \/ run[r].pc = "claim"
       \/ run[r].pc = "scheduled" /\ TaskMayStart(r)
    /\ \E fail \in BOOLEAN :
          photos' = IF ~fail /\ photos[run[r].photo_id].exists
                    THEN [photos EXCEPT ![run[r].photo_id] =
                            Written(@, [@ EXCEPT !.ai_status = ClaimedStatus(@)])]
                    ELSE photos
    /\ \E result \in LocalResults(run[r].image_path) :
          run' = [run EXCEPT ![r] =
                    IF settings.ai_cv_enabled
                    THEN [@ EXCEPT !.final_result = result, !.pc = "api"]
                    ELSE [@ EXCEPT !.pc = "api"]]
    /\ UNCHANGED <<settings, tags, photo_tags, response, manual, adapter, cv, api_image>>

\* an aggregation policy: the API result with the local tags kept in front
AfterApiMerged(final_result, api_result) ==
    IF Usable(final_result) /\ Usable(api_result)
    THEN [api_result EXCEPT !.tags = final_result.tags \o api_result.tags]
    ELSE api_result

\* hybrid_ai_service.py:75  final_result = api_result, usable or not
AfterApi(final_result, api_result) == api_result

\* hybrid_ai_service.py:61, 181-183  the stage sends a request to the provider
SendsRequest ==
    /\ settings.ai_api_enabled /\ is_ai_api_available
    /\ settings.ai_api_provider = "openai" /\ settings.provider_key

\* hybrid_ai_service.py:60-83  the API stage, then the test of line 83
ApiStage(r, outcome) ==
    LET called == settings.ai_api_enabled /\ is_ai_api_available
        api_result == IF called THEN _process_with_api(outcome) ELSE EmptyDict
        final_result == IF called THEN AfterApi(run[r].final_result, api_result)
                        ELSE run[r].final_result
    IN [run[r] EXCEPT !.api_result = api_result,
                      !.final_result = final_result,
                      !.pc = IF Usable(final_result) THEN "update" ELSE "finish"]

\* hybrid_ai_service.py:60-83  the stage up to the request to the provider
\* (openai_service.py:116), or the whole stage when no request is sent
Api(r) ==
    /\ run[r].pc = "api"
    /\ run' = [run EXCEPT ![r] =
                 IF SendsRequest THEN [@ EXCEPT !.pc = "in_api"]
                 ELSE ApiStage(r, CHOOSE outcome \in AnalyzeOutcomes : TRUE)]
    /\ UNCHANGED <<settings, photos, tags, photo_tags, response, manual, adapter, cv, api_image>>

\* openai_service.py:116-193  the provider answers (or the request times
\* out); hybrid_ai_service.py:67-83
Analyze(r) ==
    /\ run[r].pc = "in_api"
    /\ \E outcome \in AnalyzeOutcomes : run' = [run EXCEPT ![r] = ApiStage(r, outcome)]
    /\ UNCHANGED <<settings, photos, tags, photo_tags, response, manual, adapter, cv, api_image>>

\* ------------------------------------------------------ update_photo_ai_data
\* the arguments of the call at hybrid_ai_service.py:93-100
ArgCaption(r) == Get(run[r].final_result, "caption", "")
ArgTags(r) == Get(run[r].final_result, "tags", <<>>)
ArgCategory(r) == Get(run[r].final_result, "category", "other")
ArgColors(r) == Get(run[r].final_result, "colors", "")

\* an assignment made whatever the value is
AssignedAlways(value) == value

\* photo_service.py:294-299  `if caption:` / `if dominant_colors:` the
\* attribute is assigned only a value that is not empty
Assigned(value) == IF Truthy(value) THEN value ELSE Keep

\* photo_service.py:287-299  load the photo, assign caption and colors
UpdBegin(r) ==
    /\ run[r].pc = "update"
    /\ \E fail \in BOOLEAN :
          run' = [run EXCEPT ![r] =
                    IF fail THEN UpdateRaises(@, "db")
                    ELSE IF ~photos[run[r].photo_id].exists
                    THEN UpdateReturns(@, FALSE)
                    ELSE [@ EXCEPT
                            !.tx_caption = Assigned(ArgCaption(r)),
                            !.tx_colors = Assigned(ArgColors(r)),
                            !.i = 1,
                            !.pc = IF ArgTags(r) = <<>> THEN "commit" ELSE "upd_tag"]]
    /\ UNCHANGED <<settings, photos, tags, photo_tags, response, manual, adapter, cv, api_image>>

\* an update that never looks for the association
NoExistingAssociation(rec, tag) == FALSE

\* photo_service.py:314-320  the session sees an ai association of the photo
\* to the tag (autoflush is off: rows that are only pending are not seen)
ExistingAssociation(rec, tag) ==
    \E row \in photo_tags \cup rec.tx_flushed : Key(row) = <<rec.photo_id, tag.id, "ai">>

\* an update that stores the default confidence of line 305 for every tag
AssociateDefaultConfidence(r, rec, tag) ==
    [rec EXCEPT
       !.tx_pending = IF ExistingAssociation(rec, tag) THEN @
                      ELSE Append(@, [photo_id |-> rec.photo_id, tag_id |-> tag.id,
                                      source |-> "ai", confidence |-> 80, created_at |-> 0]),
       !.i = @ + 1,
       !.pc = IF rec.i + 1 > Len(ArgTags(r)) THEN "commit" ELSE "upd_tag"]

\* photo_service.py:314-330  add the association unless the session sees one
Associate(r, rec, tag) ==
    LET existing == ExistingAssociation(rec, tag)
        photo_tag == [photo_id |-> rec.photo_id, tag_id |-> tag.id, source |-> "ai",
                      confidence |-> ArgTags(r)[rec.i].confidence, created_at |-> 0]
    IN [rec EXCEPT
          !.tx_pending = IF existing THEN @ ELSE Append(@, photo_tag),
          !.i = @ + 1,
          !.pc = IF rec.i + 1 > Len(ArgTags(r)) THEN "commit" ELSE "upd_tag"]

\* a Tag created with the category as it was passed
TagCategoryAsPassed(category) == category

\* photo_service.py:310  Tag(name=tag_name, category=category or 'other')
TagCategory(category) == IF Truthy(category) THEN category ELSE "other"

\* photo_service.py:303-309  SELECT the tag by name
UpdTag(r) ==
    /\ run[r].pc = "upd_tag"
    /\ LET name == ArgTags(r)[run[r].i].name
           visible == { t \in tags \cup run[r].tx_tags : t.name = name }
       IN \E fail \in BOOLEAN :
            run' = [run EXCEPT ![r] =
                      IF fail THEN UpdateRaises(@, "db")
                      ELSE IF visible = {} THEN [@ EXCEPT !.pc = "upd_insert"]
                      ELSE Associate(r, @, CHOOSE t \in visible : TRUE)]
    /\ UNCHANGED <<settings, photos, tags, photo_tags, response, manual, adapter, cv, api_image>>

\* photo_service.py:310-330  INSERT the tag and flush, then associate it.
\* The flush also sends the pending photo_tags rows; a unique violation
\* (tags.name, or the key of photo_tags) raises and the call rolls back.
UpdInsert(r) ==
    /\ run[r].pc = "upd_insert"
    /\ LET name == ArgTags(r)[run[r].i].name
           tag == [id |-> NewTagId, name |-> name, category |-> TagCategory(ArgCategory(r))]
           pending == run[r].tx_pending
       IN \/ run' = [run EXCEPT ![r] = UpdateRaises(@, "db")]
          \/ /\ \A t \in OtherTxTags(r) : t.name # name
             /\ ~PendingBlocked(r, pending)
             /\ run' = [run EXCEPT ![r] =
                          IF (\E t \in tags : t.name = name) \/ ~PendingInsertable(r, pending)
                          THEN UpdateRaises(@, "integrity")
                          ELSE Associate(r, [@ EXCEPT !.tx_tags = @ \cup {tag},
                                                      !.tx_flushed = @ \cup Stored(SeqToSet(pending), photo_tags \cup @),
                                                      !.tx_pending = <<>>], tag)]
    /\ UNCHANGED <<settings, photos, tags, photo_tags, response, manual, adapter, cv, api_image>>

\* photo_service.py:332-340  commit: everything is stored, or nothing is
UpdCommit(r) ==
    /\ run[r].pc = "commit"
    /\ LET rec == run[r]
           p == rec.photo_id
       IN \/ /\ run' = [run EXCEPT ![r] = UpdateRaises(@, "db")]
             /\ UNCHANGED <<photos, tags, photo_tags>>
          \/ /\ ~PendingBlocked(r, rec.tx_pending)
             /\ IF ~PendingInsertable(r, rec.tx_pending) \/ ~photos[p].exists
                THEN /\ run' = [run EXCEPT ![r] = UpdateRaises(@,
                                    IF ~photos[p].exists THEN "stale" ELSE "integrity")]
                     /\ UNCHANGED <<photos, tags, photo_tags>>
                ELSE /\ photos' = [photos EXCEPT
                          ![p].caption = IF rec.tx_caption = Keep THEN @ ELSE rec.tx_caption,
                          ![p].dominant_colors = IF rec.tx_colors = Keep THEN @ ELSE rec.tx_colors,
                          ![p].updated_at = "updated"]
                     /\ tags' = tags \cup rec.tx_tags
                     /\ photo_tags' = photo_tags \cup rec.tx_flushed
                                       \cup Stored(SeqToSet(rec.tx_pending),
                                                   photo_tags \cup rec.tx_flushed)
                     /\ run' = [run EXCEPT ![r] = UpdateReturns(@, TRUE)]
    /\ UNCHANGED <<settings, response, manual, adapter, cv, api_image>>

\* ------------------------------------------- process_photo_simple, continued
\* hybrid_ai_service.py:93, 102-103  whatever update_photo_ai_data returned
\* (the exception it caught is gone with its frame), the photo is read again
\* in the session of the save block
LoadPhoto(r) ==
    /\ run[r].pc = "set_completed"
    /\ \/ run' = [run EXCEPT ![r] =
                    IF photos[run[r].photo_id].exists
                    THEN [@ EXCEPT !.seen = Loaded(photos[run[r].photo_id]),
                                   !.update_error = "none", !.pc = "store_completed"]
                    ELSE [@ EXCEPT !.update_error = "none", !.pc = "finish"]]
       \/ \E len \in ErrLens :
             run' = [run EXCEPT ![r] = [@ EXCEPT !.update_error = "none", !.err = len,
                                                 !.pc = "save_failed"]]
    /\ UNCHANGED <<settings, photos, tags, photo_tags, response, manual, adapter, cv, api_image>>

\* hybrid_ai_service.py:104-107  completed and no error are set on the loaded
\* photo and committed
SetCompleted(r) ==
    /\ run[r].pc = "store_completed"
    /\ \/ /\ photos' = [photos EXCEPT ![run[r].photo_id] =
                            Written(@, ChangedOnly(@, run[r].seen,
                                         [ai_status |-> "completed", ai_error |-> NoError]))]
          /\ run' = [run EXCEPT ![r] = [@ EXCEPT !.seen = NotLoaded, !.pc = "finish"]]
       \/ /\ \E len \in ErrLens :
                run' = [run EXCEPT ![r] = [@ EXCEPT !.seen = NotLoaded, !.err = len,
                                                    !.pc = "save_failed"]]
          /\ UNCHANGED photos
    /\ UNCHANGED <<settings, tags, photo_tags, response, manual, adapter, cv, api_image>>

\* hybrid_ai_service.py:124   photo.ai_error = str(e)
SaveErrorText(len) == len

\* hybrid_ai_service.py:112-127  the handler of the save block
SaveFailed(r) ==
    /\ run[r].pc = "save_failed"
    /\ \/ /\ photos' = IF photos[run[r].photo_id].exists
                        THEN [photos EXCEPT ![run[r].photo_id] =
                                Written(@, [@ EXCEPT !.ai_status = "failed",
                                                     !.ai_error = SaveErrorText(run[r].err)])]
                        ELSE photos
          /\ run' = [run EXCEPT ![r] = [@ EXCEPT !.err = 0, !.pc = "finish"]]
       \/ /\ run' = [run EXCEPT ![r] = SwallowUpdateError([@ EXCEPT !.err = 0], "finish")]
          /\ UNCHANGED photos
    /\ UNCHANGED <<settings, tags, photo_tags, response, manual, adapter, cv, api_image>>

\* hybrid_ai_service.py:129-130  the last statements of the outer try
Finish(r) ==
    /\ run[r].pc = "finish"
    /\ \/ run' = [run EXCEPT ![r] = Returned(@, FALSE)]
       \/ \E len \in ErrLens :
             run' = [run EXCEPT ![r] = [@ EXCEPT !.err = len, !.pc = "except"]]
    /\ UNCHANGED <<settings, photos, tags, photo_tags, response, manual, adapter, cv, api_image>>

\* hybrid_ai_service.py:132-152  the outer handler: failed, str(e)[:500]
Except(r) ==
    /\ run[r].pc = "except"
    /\ \/ /\ photos' = IF photos[run[r].photo_id].exists
                        THEN [photos EXCEPT ![run[r].photo_id] =
                                Written(@, [@ EXCEPT !.ai_status = "failed",
                                                     !.ai_error = Truncate(run[r].err)])]
                        ELSE photos
          /\ run' = [run EXCEPT ![r] = Returned(@, FALSE)]
       \/ /\ run' = [run EXCEPT ![r] = SwallowUpdateError(Returned(@, FALSE), "done")]
          /\ UNCHANGED photos
    /\ UNCHANGED <<settings, tags, photo_tags, response, manual, adapter, cv, api_image>>

\* ------------------------------------------------------------ manual tagging
\* the add_photo_tags calls are interchangeable: a call takes the first free record
FreeCall(m) == manual[m].pc = "idle" /\ \A o \in CallIds : o < m => manual[o].pc # "idle"

\* the call has returned or raised: its session is closed (database.py:32-42)
CallEnded == [IdleCall EXCEPT !.pc = "done"]

\* the tag_ids of a request: one id, or two (which may be the same), among
\* the ids of the stored tags and 0, the id of no tag; the order of the ids
\* plays no part in Tag.id.in_(tag_ids)
TagIdLists ==
    LET ids == { t.id : t \in tags } \cup {0}
    IN { <<a>> : a \in ids } \cup { <<pr[1], pr[2]>> : pr \in { q \in ids \X ids : q[1] <= q[2] } }

\* photo_service.py:229-248  the association to add for `tag`, unless the
\* session sees a manual one
ManualRows(m, p, found) ==
    { [photo_id |-> p, tag_id |-> t.id, source |-> "manual", confidence |-> 100,
       created_at |-> 0] :
        t \in { t \in found : \A row \in photo_tags : Key(row) # <<p, t.id, "manual">> } }

\* photo_service.py:218-249  add_photo_tags up to the commit: the owner's
\* photo, the tags of tag_ids (all of them must exist), the rows to add.
\* The SELECTs of the loop read committed rows and are taken as one read.
\* A call that returns False (line 223) or raises ValidationError (line 228)
\* ends here and has changed nothing.
add_photo_tags(m, p, tag_ids, user_id) ==
    /\ FreeCall(m)
    /\ LET found == { t \in tags : t.id \in SeqToSet(tag_ids) }
       IN manual' = IF ~(photos[p].exists /\ photos[p].user_id = user_id)
                    THEN manual
                    ELSE IF Cardinality(found) # Len(tag_ids)
                    THEN manual
                    ELSE [manual EXCEPT ![m] =
                            [pc |-> "commit", photo_id |-> p,
                             pending |-> ManualRows(m, p, found)]]
    /\ UNCHANGED <<settings, photos, tags, photo_tags, run, response, adapter, cv, api_image>>

\* photo_service.py:251-252  the commit INSERTs the rows; a row whose key is
\* stored by now violates the primary key: the call raises, nothing is stored
AddCommit(m) ==
    /\ manual[m].pc = "commit"
    /\ \/ UNCHANGED photo_tags
       \/ photo_tags' =
             IF UniqueKeys(manual[m].pending, photo_tags)
             THEN photo_tags \cup Stored(manual[m].pending, photo_tags)
             ELSE photo_tags
    /\ manual' = [manual EXCEPT ![m] = CallEnded]
    /\ UNCHANGED <<settings, photos, tags, run, response, adapter, cv, api_image>>

\* a filter on the association made by the AI
RemovedAiKey(p, tag_id) == <<p, tag_id, "ai">>

\* photo_service.py:264-270  the filter of remove_photo_tag: photo_id, tag_id
\* and source == "manual"
RemovedKey(p, tag_id) == <<p, tag_id, "manual">>

\* photo_service.py:254-275  remove_photo_tag: the manual association of the
\* owner's photo, if there is one
remove_photo_tag(p, tag_id, user_id) ==
    /\ photos[p].exists /\ photos[p].user_id = user_id
    /\ \E row \in photo_tags :
          /\ Key(row) = RemovedKey(p, tag_id)
          /\ photo_tags' = photo_tags \ {row}
    /\ UNCHANGED <<settings, photos, tags, run, response, manual, adapter, cv, api_image>>

\* ------------------------------------------------ the service called directly
\* the results a stage can hand to update_photo_ai_data, and a result whose
\* category is missing and whose tags overlap with both
ReconcileArgs ==
    { LocalResult,
      [caption |-> "B", tags |-> ApiTags(<<"cat", "dog">>), colors |-> "warm",
       category |-> "animal"],
      [caption |-> "", tags |-> ApiTags(<<"red", "cat">>), colors |-> "",
       category |-> NULL],
      [caption |-> "", tags |-> <<>>, colors |-> "", category |-> "other"],
      [caption |-> "B", tags |-> ApiTags(<<"cat", "cat">>), colors |-> "warm",
       category |-> "animal"] }

\* photo_service.py:277-285  update_photo_ai_data(photo_id, caption, tags,
\* category, dominant_colors) called with a result
update_photo_ai_data(r, p, result) ==
    /\ FreeSlot(r)
    /\ run' = [run EXCEPT ![r] = [IdleRun EXCEPT !.pc = "update", !.photo_id = p,
                                               !.final_result = result]]
    /\ UNCHANGED <<settings, photos, tags, photo_tags, response, manual, adapter, cv, api_image>>

\* photo_service.py:335, 340  return True / return False to the caller
UpdReturn(r) ==
    /\ run[r].pc = "set_completed"
    /\ run' = [run EXCEPT ![r] = [Returned(@, FALSE) EXCEPT !.update_ok = run[r].update_ok]]
    /\ UNCHANGED <<settings, photos, tags, photo_tags, response, manual, adapter, cv, api_image>>

Next ==
    \/ \E p \in PhotoIds : upload_photos_batch(p)
    \/ \E p \in PhotoIds, r \in RunIds : upload_photo(p, r)
    \/ \E p \in PhotoIds : Respond(p)
    \/ \E p \in PhotoIds, u \in UserIds : update_photo(p, u)
    \/ \E p \in PhotoIds, r \in RunIds : Submit(r, p)
    \/ \E r \in RunIds : Claim(r)
    \/ \E r \in RunIds : Api(r)
    \/ \E r \in RunIds : Analyze(r)
    \/ \E r \in RunIds : UpdBegin(r)
    \/ \E r \in RunIds : UpdTag(r)
    \/ \E r \in RunIds : UpdInsert(r)
    \/ \E r \in RunIds : UpdCommit(r)
    \/ \E r \in RunIds : LoadPhoto(r)
    \/ \E r \in RunIds : SetCompleted(r)
    \/ \E r \in RunIds : SaveFailed(r)
    \/ \E r \in RunIds : Finish(r)
    \/ \E r \in RunIds : Except(r)

Spec == Init /\ [][Next]_vars

\* no other Run is between its call and its return, and no request is
\* waiting for its response
Quiet(r) ==
    /\ \A o \in RunIds \ {r} : run[o].pc \in {"idle", "done"}
    /\ \A p \in PhotoIds : response[p] = "pending" => p = run[r].photo_id

\* the uploads and Runs of a deployment that serves one request at a time: a
\* Run starts and takes its steps only while no other Run is under way
SeqNext ==
    \/ \E p \in PhotoIds, r \in RunIds : Quiet(r) /\ upload_photo(p, r)
    \/ \E p \in PhotoIds : Respond(p)
    \/ \E p \in PhotoIds, r \in RunIds : Quiet(r) /\ Submit(r, p)
    \/ \E r \in RunIds : Quiet(r) /\ Claim(r)
    \/ \E r \in RunIds : Quiet(r) /\ Api(r)
    \/ \E r \in RunIds : Quiet(r) /\ Analyze(r)
    \/ \E r \in RunIds : Quiet(r) /\ UpdBegin(r)
    \/ \E r \in RunIds : Quiet(r) /\ UpdTag(r)
    \/ \E r \in RunIds : Quiet(r) /\ UpdInsert(r)
    \/ \E r \in RunIds : Quiet(r) /\ UpdCommit(r)
    \/ \E r \in RunIds : Quiet(r) /\ LoadPhoto(r)
    \/ \E r \in RunIds : Quiet(r) /\ SetCompleted(r)
    \/ \E r \in RunIds : Quiet(r) /\ SaveFailed(r)
    \/ \E r \in RunIds : Quiet(r) /\ Finish(r)
    \/ \E r \in RunIds : Quiet(r) /\ Except(r)

SpecSeq == Init /\ [][SeqNext]_vars

\* config.py:37-50  an environment that enables both stages and sets the key
\* of the openai provider
AllStagesSettings ==
    [ai_cv_enabled |-> TRUE, ai_api_enabled |-> TRUE,
     ai_api_provider |-> "openai", provider_key |-> TRUE,
     ai_max_workers |-> 1]

\* no Run is between its call and its return and no response is outstanding
AllQuiet ==
    /\ \A o \in RunIds : run[o].pc \in {"idle", "done"}
    /\ \A p \in PhotoIds : response[p] # "pending"

\* the same deployment with the photo requests of the API (batch upload,
\* PATCH of a photo) served between the Runs
SeqCrudNext ==
    \/ \E p \in PhotoIds, r \in RunIds : Quiet(r) /\ upload_photo(p, r)
    \/ \E p \in PhotoIds : Respond(p)
    \/ \E p \in PhotoIds, r \in RunIds : Quiet(r) /\ Submit(r, p)
    \/ \E r \in RunIds : Quiet(r) /\ Claim(r)
    \/ \E r \in RunIds : Quiet(r) /\ Api(r)
    \/ \E r \in RunIds : Quiet(r) /\ Analyze(r)
    \/ \E r \in RunIds : Quiet(r) /\ UpdBegin(r)
    \/ \E r \in RunIds : Quiet(r) /\ UpdTag(r)
    \/ \E r \in RunIds : Quiet(r) /\ UpdInsert(r)
    \/ \E r \in RunIds : Quiet(r) /\ UpdCommit(r)
    \/ \E r \in RunIds : Quiet(r) /\ LoadPhoto(r)
    \/ \E r \in RunIds : Quiet(r) /\ SetCompleted(r)
    \/ \E r \in RunIds : Quiet(r) /\ SaveFailed(r)
    \/ \E r \in RunIds : Quiet(r) /\ Finish(r)
    \/ \E r \in RunIds : Quiet(r) /\ Except(r)
    \/ \E p \in PhotoIds : AllQuiet /\ upload_photos_batch(p)
    \/ \E p \in PhotoIds, u \in UserIds : AllQuiet /\ update_photo(p, u)

SeqCrudInit == Init /\ settings = AllStagesSettings

SpecSeqCrud == SeqCrudInit /\ [][SeqCrudNext]_vars

\* PhotoService on its own: photos stored by the batch upload, concurrent
\* update_photo_ai_data calls, and the manual tagging requests (those of a
\* user who does not own the photo return at once and are left out)
StoreNext ==
    \/ \E p \in PhotoIds : upload_photos_batch(p)
    \/ \E r \in RunIds :
          /\ FreeSlot(r)
          /\ \E p \in PhotoIds, result \in ReconcileArgs : update_photo_ai_data(r, p, result)
    \/ \E r \in RunIds : UpdBegin(r)
    \/ \E r \in RunIds : UpdTag(r)
    \/ \E r \in RunIds : UpdInsert(r)
    \/ \E r \in RunIds : UpdCommit(r)
    \/ \E r \in RunIds : UpdReturn(r)
    \/ \E m \in CallIds :
          /\ FreeCall(m)
          /\ \E p \in PhotoIds, u \in UserIds :
                /\ photos[p].exists /\ photos[p].user_id = u
                /\ \E tag_ids \in TagIdLists : add_photo_tags(m, p, tag_ids, u)
    \/ \E m \in CallIds : AddCommit(m)
    \/ \E p \in PhotoIds, t \in { t.id : t \in tags }, u \in UserIds :
          remove_photo_tag(p, t, u)

\* config.py:37-50  the settings of an environment that sets none of the
\* variables but AI_MAX_WORKERS; PhotoService reads no setting
DefaultSettings ==
    [ai_cv_enabled |-> TRUE, ai_api_enabled |-> TRUE,
     ai_api_provider |-> "openai", provider_key |-> FALSE,
     ai_max_workers |-> 1]

StoreInit == Init /\ settings = DefaultSettings

SpecStore == StoreInit /\ [][StoreNext]_vars

\* no other update_photo_ai_data call and no add_photo_tags call is open
QuietTx(r) ==
    /\ \A o \in RunIds \ {r} : run[o].pc \in {"idle", "done"}
    /\ \A o \in CallIds : manual[o].pc \in {"idle", "done"}

\* no update_photo_ai_data call and no other add_photo_tags call is open
QuietCall(m) ==
    /\ \A o \in RunIds : run[o].pc \in {"idle", "done"}
    /\ \A o \in CallIds \ {m} : manual[o].pc \in {"idle", "done"}

\* PhotoService in a deployment that serves one request at a time
StoreSeqNext ==
    \/ \E p \in PhotoIds : upload_photos_batch(p)
    \/ \E r \in RunIds :
          /\ QuietTx(r) /\ FreeSlot(r)
          /\ \E p \in PhotoIds, result \in ReconcileArgs : update_photo_ai_data(r, p, result)
    \/ \E r \in RunIds : QuietTx(r) /\ UpdBegin(r)
    \/ \E r \in RunIds : QuietTx(r) /\ UpdTag(r)
    \/ \E r \in RunIds : QuietTx(r) /\ UpdInsert(r)
    \/ \E r \in RunIds : QuietTx(r) /\ UpdCommit(r)
    \/ \E r \in RunIds : QuietTx(r) /\ UpdReturn(r)
    \/ \E m \in CallIds :
          /\ QuietCall(m) /\ FreeCall(m)
          /\ \E p \in PhotoIds, u \in UserIds :
                /\ photos[p].exists /\ photos[p].user_id = u
                /\ \E tag_ids \in TagIdLists : add_photo_tags(m, p, tag_ids, u)
    \/ \E m \in CallIds : QuietCall(m) /\ AddCommit(m)
    \/ \E p \in PhotoIds, t \in { t.id : t \in tags }, u \in UserIds :
          remove_photo_tag(p, t, u)

SpecStoreSeq == StoreInit /\ [][StoreSeqNext]_vars

\* ------------------------------------------ the image sent to the provider
\* the edges of the images: the smallest ones, and the ones around one, two and
\* three times max_size
EdgeSizes ==
    (1..(MaxDelta + 1))
      \cup { m * max_size + d : m \in 1..3, d \in (0 - MaxDelta)..MaxDelta }

\* openai_service.py:39-45  the size passed to img.resize; int() truncates
NewSize(width, height) ==
    IF width > height
    THEN [width |-> max_size, height |-> (height * max_size) \div width]
    ELSE [width |-> (width * max_size) \div height, height |-> max_size]

\* openai_service.py:33-56  the size of the image at the returned path.
\* Image.open, img.resize (which rejects an edge of 0) and img.save can raise:
\* the except clause returns the path of the image as it was uploaded
_resize_image(width, height, failed) ==
    IF failed THEN [width |-> width, height |-> height]
    ELSE IF (IF width > height THEN width ELSE height) > max_size
    THEN IF NewSize(width, height).width = 0 \/ NewSize(width, height).height = 0
         THEN [width |-> width, height |-> height]
         ELSE NewSize(width, height)
    ELSE [width |-> width, height |-> height]

\* openai_service.py:63-70  analyze_image resizes the image and encodes the
\* file at the returned path
EncodeImage ==
    \E width \in EdgeSizes, height \in EdgeSizes, failed \in BOOLEAN :
        /\ api_image' = [pc |-> "encoded", width |-> width, height |-> height,
                         failed |-> failed,
                         sent |-> _resize_image(width, height, failed)]
        /\ UNCHANGED <<settings, photos, tags, photo_tags, run, response, manual, adapter, cv>>

ResizeNext == EncodeImage

SpecResize == StoreInit /\ [][ResizeNext]_vars

\* --------------------------------------------- reconciling for several photos
\* one photo more than PhotoIds, so that two calls can be for different photos
PairPhotoIds == 1..(MaxPhotos + 1)

PairInit ==
    /\ settings = DefaultSettings
    /\ photos = [p \in PairPhotoIds |-> NoRow]
    /\ tags = {}
    /\ photo_tags = {}
    /\ run = [r \in RunIds |-> IdleRun]
    /\ response = [p \in PairPhotoIds |-> "none"]
    /\ manual = [m \in CallIds |-> IdleCall]
    /\ adapter = NoReply
    /\ cv = NoImage
    /\ api_image = NoApiImage

\* only update_photo_ai_data calls run, and the calls that are open at the same
\* time are for different photos
PairNext ==
    \/ \E p \in PairPhotoIds : upload_photos_batch(p)
    \/ \E r \in RunIds :
          /\ FreeSlot(r)
          /\ \E p \in PairPhotoIds, result \in ReconcileArgs :
                /\ photos[p].exists
                /\ \A o \in RunIds : run[o].pc \notin {"idle", "done"} => run[o].photo_id # p
                /\ update_photo_ai_data(r, p, result)
    \/ \E r \in RunIds : UpdBegin(r)
    \/ \E r \in RunIds : UpdTag(r)
    \/ \E r \in RunIds : UpdInsert(r)
    \/ \E r \in RunIds : UpdCommit(r)
    \/ \E r \in RunIds : UpdReturn(r)

SpecPair == PairInit /\ [][PairNext]_vars

\* ------------------------------------------------- the reply of the provider
\* A text is the sequence of its characters. The "tags" value of a parsed
\* reply is a str, a list of str, or a value of another type.
Chars == {"c", "d", " ", ","}

RECURSIVE Texts(_)
Texts(n) == IF n = 0 THEN {<<>>}
            ELSE Texts(n - 1) \cup { Append(t, ch) : t \in { u \in Texts(n - 1) : Len(u) = n - 1 },
                                                      ch \in Chars }

RawTags ==
    { [kind |-> "str", value |-> t] : t \in Texts(MaxStrLen) }
      \cup { [kind |-> "list", value |-> <<t>>] : t \in Texts(MaxStrLen - 1) }
      \cup { [kind |-> "list", value |-> <<t, u>>] : t \in Texts(MaxStrLen - 1),
                                                     u \in Texts(MaxStrLen - 1) }
      \cup { [kind |-> "list", value |-> <<>>], [kind |-> "other", value |-> <<>>] }

\* str.split(",")
RECURSIVE Split(_)
Split(s) ==
    IF \A k \in DOMAIN s : s[k] # ","
    THEN <<s>>
    ELSE LET k == CHOOSE k \in DOMAIN s : s[k] = "," /\ \A j \in 1..(k - 1) : s[j] # ","
         IN <<SubSeq(s, 1, k - 1)>> \o Split(SubSeq(s, k + 1, Len(s)))

\* str.strip()
RECURSIVE LStrip(_)
LStrip(s) == IF s # <<>> /\ Head(s) = " " THEN LStrip(Tail(s)) ELSE s

RECURSIVE RStrip(_)
RStrip(s) == IF s # <<>> /\ s[Len(s)] = " " THEN RStrip(SubSeq(s, 1, Len(s) - 1)) ELSE s

Strip(s) == RStrip(LStrip(s))

\* [t.strip() for t in pieces if t.strip()]
RECURSIVE StripNonEmpty(_)
StripNonEmpty(pieces) ==
    IF pieces = <<>> THEN <<>>
    ELSE IF Strip(Head(pieces)) # <<>>
    THEN <<Strip(Head(pieces))>> \o StripNonEmpty(Tail(pieces))
    ELSE StripNonEmpty(Tail(pieces))

\* openai_service.py:145-152  a list is taken as it is, a str is split at the
\* commas, anything else gives []
NormalizeTags(tags_value) ==
    IF tags_value.kind = "list" THEN tags_value.value
    ELSE IF tags_value.kind = "str" THEN StripNonEmpty(Split(tags_value.value))
    ELSE <<>>

\* openai_service.py:135  analysis = json.loads(json_str)
ParseReply(tags_value) ==
    /\ adapter.pc \in {"idle", "normalized"}
    /\ adapter' = [pc |-> "parsed", raw |-> tags_value, tags |-> <<>>]
    /\ UNCHANGED <<settings, photos, tags, photo_tags, run, response, manual, cv, api_image>>

\* openai_service.py:145-152
Normalize ==
    /\ adapter.pc = "parsed"
    /\ adapter' = [adapter EXCEPT !.pc = "normalized", !.tags = NormalizeTags(adapter.raw)]
    /\ UNCHANGED <<settings, photos, tags, photo_tags, run, response, manual, cv, api_image>>

AdapterNext ==
    \/ \E tags_value \in RawTags : ParseReply(tags_value)
    \/ Normalize

\* OpenAIService.analyze_image on its own, from the parsed reply on
SpecAdapter == StoreInit /\ [][AdapterNext]_vars

\* ------------------------------------------------- Runs with the local stage only
\* config.py:37-47  AI_CV_ENABLED on, AI_API_ENABLED off
LocalOnlySettings ==
    [ai_cv_enabled |-> TRUE, ai_api_enabled |-> FALSE,
     ai_api_provider |-> "openai", provider_key |-> FALSE,
     ai_max_workers |-> 1]

LocalOnlyInit == Init /\ settings = LocalOnlySettings

\* uploads and Runs that do not overlap, for the image files of one colour
\* and of two
LocalOnlyNext ==
    \/ \E p \in PhotoIds, r \in RunIds : Quiet(r) /\ upload_photo(p, r)
    \/ \E p \in PhotoIds : Respond(p)
    \/ \E p \in PhotoIds, r \in RunIds :
          Quiet(r) /\ photos[p].exists /\ \E image_path \in {"ok", "mixed"} : SubmitImage(r, p, image_path)
    \/ \E r \in RunIds : Quiet(r) /\ Claim(r)
    \/ \E r \in RunIds : Quiet(r) /\ Api(r)
    \/ \E r \in RunIds : Quiet(r) /\ UpdBegin(r)
    \/ \E r \in RunIds : Quiet(r) /\ UpdTag(r)
    \/ \E r \in RunIds : Quiet(r) /\ UpdInsert(r)
    \/ \E r \in RunIds : Quiet(r) /\ UpdCommit(r)
    \/ \E r \in RunIds : Quiet(r) /\ LoadPhoto(r)
    \/ \E r \in RunIds : Quiet(r) /\ SetCompleted(r)
    \/ \E r \in RunIds : Quiet(r) /\ SaveFailed(r)
    \/ \E r \in RunIds : Quiet(r) /\ Finish(r)
    \/ \E r \in RunIds : Quiet(r) /\ Except(r)

SpecLocalOnly == LocalOnlyInit /\ [][LocalOnlyNext]_vars

\* the deployment with the local stage only, with the photo requests of the
\* API (batch upload, PATCH of a photo) served between the Runs and with Runs
\* submitted again for any photo id and path: every statement that writes
\* ai_status runs (the API stage writes none)
LocalCrudNext ==
    \/ \E p \in PhotoIds, r \in RunIds : Quiet(r) /\ upload_photo(p, r)
    \/ \E p \in PhotoIds : Respond(p)
    \/ \E p \in PhotoIds, r \in RunIds : Quiet(r) /\ Submit(r, p)
    \/ \E r \in RunIds : Quiet(r) /\ Claim(r)
    \/ \E r \in RunIds : Quiet(r) /\ Api(r)
    \/ \E r \in RunIds : Quiet(r) /\ UpdBegin(r)
    \/ \E r \in RunIds : Quiet(r) /\ UpdTag(r)
    \/ \E r \in RunIds : Quiet(r) /\ UpdInsert(r)
    \/ \E r \in RunIds : Quiet(r) /\ UpdCommit(r)
    \/ \E r \in RunIds : Quiet(r) /\ LoadPhoto(r)
    \/ \E r \in RunIds : Quiet(r) /\ SetCompleted(r)
    \/ \E r \in RunIds : Quiet(r) /\ SaveFailed(r)
    \/ \E r \in RunIds : Quiet(r) /\ Finish(r)
    \/ \E r \in RunIds : Quiet(r) /\ Except(r)
    \/ \E p \in PhotoIds : AllQuiet /\ upload_photos_batch(p)
    \/ \E p \in PhotoIds, u \in UserIds : AllQuiet /\ update_photo(p, u)

SpecLocalCrud == LocalOnlyInit /\ [][LocalCrudNext]_vars

\* ----------------------------------------------- the local analyzer on its own
\* hybrid_ai_service.py:215-227  _load_image
LoadImage(image) ==
    /\ cv.pc \in {"idle", "analyzed"}
    /\ cv' = [NoImage EXCEPT !.pc = "loaded", !.image = image]
    /\ UNCHANGED <<settings, photos, tags, photo_tags, run, response, manual, adapter, api_image>>

\* hybrid_ai_service.py:162-168  the result built by _process_with_cv; each
\* of the three functions makes its own _extract_dominant_colors call
AnalyzeLocal ==
    /\ cv.pc = "loaded"
    /\ \E for_caption \in _extract_dominant_colors(cv.image, 3),
          for_tags \in _extract_dominant_colors(cv.image, 3),
          colors \in _extract_dominant_colors(cv.image, 5),
          dense \in BOOLEAN :
          cv' = [cv EXCEPT !.pc = "analyzed",
                           !.caption = _generate_simple_caption(cv.image, for_caption),
                           !.colors = colors,
                           !.tags = _generate_simple_tags(cv.image, for_tags, dense)]
    /\ UNCHANGED <<settings, photos, tags, photo_tags, run, response, manual, adapter, api_image>>

CvNext ==
    \/ \E image \in Images : LoadImage(image)
    \/ AnalyzeLocal

\* HybridAIService._process_with_cv on its own, from the loaded image on
SpecCv == StoreInit /\ [][CvNext]_vars

\* ------------------------------------------------------------------ claims
\* the Run is past the status write of lines 38-49 and has not returned
PastClaim(r) == run[r].pc \notin {"idle", "scheduled", "claim", "done"}

\* the photo row the Run works on
PhotoOf(r) == photos[run[r].photo_id]

\* the local stage of the Run produced a usable result
LocalUsable(r) ==
    settings.ai_cv_enabled /\ Usable(_process_with_cv(run[r].image_path))

\* the API stage of the Run was called and answered
ApiCalled(r) == DOMAIN run[r].api_result # {}

\* name of the tag a photo_tags row points to, among the rows of `table`
TagNameOf(row, table) == (CHOOSE t \in table : t.id = row.tag_id).name

\* C1: of two Runs for the same stored photo that overlap, at most one is
\* past the claim (executes the analysis and persistence steps).
C1_OneRunPastClaim ==
    \A r1, r2 \in RunIds :
        (r1 # r2 /\ PastClaim(r1) /\ PastClaim(r2) /\ PhotoOf(r1).exists)
            => run[r1].photo_id # run[r2].photo_id

\* C2: when a Run returns with local analysis enabled, the photo's ai_status
\* is completed or failed, never processing.
C2_FinishedRunIsTerminal ==
    [][\A r \in RunIds :
          (run[r].pc # "done" /\ run'[r].pc = "done"
             /\ settings.ai_cv_enabled /\ PhotoOf(r).exists)
            => photos'[run[r].photo_id].ai_status \in {"completed", "failed"}]_vars

\* C3: a Run that obtained no usable result returns with ai_status failed and
\* a non-empty ai_error, and it wrote neither caption nor dominant_colors.
C3_NoUsableResultFails ==
    [][\A r \in RunIds :
          (run[r].pc = "finish" /\ run'[r].pc = "done"
             /\ ~Usable(run[r].final_result) /\ PhotoOf(r).exists)
            => /\ photos'[run[r].photo_id].ai_status = "failed"
               /\ photos'[run[r].photo_id].ai_error > 0
               /\ ~run[r].update_ok]_vars

\* C4: when the local stage succeeded and the API stage was called and failed,
\* the Run goes on with the local result and returns with ai_status completed.
C4_ApiFailureFallsBackToLocal ==
    [][\A r \in RunIds :
          (run[r].pc = "finish" /\ run'[r].pc = "done" /\ PhotoOf(r).exists
             /\ LocalUsable(r) /\ ApiCalled(r) /\ ~Usable(run[r].api_result))
            => /\ run[r].final_result = LocalResult
               /\ photos'[run[r].photo_id].ai_status = "completed"]_vars

C6_CompletedOnlyIfPersisted ==
    [][\A r \in RunIds :
          (run[r].pc = "store_completed" /\ run'[r].pc = "finish"
             /\ photos'[run[r].photo_id].ai_status = "completed")
            => run[r].update_ok]_vars

\* C7: the only changes of ai_status are pending -> processing,
\* processing -> completed and processing -> failed; completed and failed
\* never change again.
C7_OnlyLegalTransitions ==
    [][\A p \in PhotoIds :
          (photos[p].exists /\ photos'[p].ai_status # photos[p].ai_status)
            => <<photos[p].ai_status, photos'[p].ai_status>> \in
                  { <<"pending", "processing">>, <<"processing", "completed">>,
                    <<"processing", "failed">> }]_vars

\* C8: a Run that finds the stored ai_status other than pending aborts: it
\* returns at once and leaves the photo row, the tags and the associations
\* as they were.
C8_NonPendingRunAborts ==
    [][\A r \in RunIds :
          (run[r].pc \in {"scheduled", "claim"} /\ run'[r].pc \notin {"scheduled", "claim"}
             /\ PhotoOf(r).exists /\ PhotoOf(r).ai_status # "pending")
            => /\ run'[r].pc = "done"
               /\ UNCHANGED <<photos, tags, photo_tags>>]_vars

\* C9: no Run ever raises to its caller, whatever the stage outcomes, a
\* missing photo row or failures of the store (the status writes included).
C9_RunNeverRaises ==
    \A r \in RunIds : ~run[r].raised

\* a Run has returned normally after one of its handlers set failed
C9_Witness ==
    \E r \in RunIds :
        /\ run[r].pc = "done" /\ ~run[r].raised
        /\ \E p \in PhotoIds : photos[p].exists /\ photos[p].ai_status = "failed"

\* C10: a stored ai_error is NULL or at most 500 characters long.
C10_ErrorAtMost500 ==
    \A p \in PhotoIds : photos[p].ai_error <= ErrorTextLimit

\* the names of the tags the photo has an ai association to
AiNames(p) ==
    { TagNameOf(row, tags) : row \in { x \in photo_tags : x.photo_id = p /\ x.source = "ai" } }

\* the names in the tag list of the call
ListNames(r) == { ArgTags(r)[k].name : k \in DOMAIN ArgTags(r) }

\* every tag of the call's list is already associated with its photo
AlreadyReconciled(r) == ListNames(r) \subseteq AiNames(run[r].photo_id)

\* C11: of two update_photo_ai_data calls made one after the other with the
\* same tag list for the same photo, the second finds every tag and every
\* association and has nothing to insert: the tags and photo_tags tables are
\* the same after it as after the first, and a call that returns True leaves
\* exactly one ai association per name of its list.
C11_ReconcileTwiceIsOnce ==
    [][\A r \in RunIds :
          (run[r].pc = "commit" /\ run'[r].pc = "set_completed")
            => /\ AlreadyReconciled(r)
                    => /\ run[r].tx_pending = <<>> /\ run[r].tx_tags = {}
                       /\ tags' = tags /\ photo_tags' = photo_tags
               /\ run'[r].update_ok
                    => \A n \in ListNames(r) :
                          Cardinality({ row \in photo_tags' :
                                          /\ row.photo_id = run[r].photo_id
                                          /\ row.source = "ai"
                                          /\ TagNameOf(row, tags') = n }) = 1]_vars

\* a second call is about to commit: an earlier call has returned True and
\* every tag of the second call's list is associated
C11_Witness ==
    \E r \in RunIds :
        /\ run[r].pc = "commit" /\ ArgTags(r) # <<>> /\ AlreadyReconciled(r)
        /\ \E o \in RunIds \ {r} : run[o].pc = "done" /\ run[o].update_ok

\* C12: the photo_tags table never holds two rows with the same
\* (photo_id, tag_id, source), whatever the interleaving of
\* update_photo_ai_data, add_photo_tags and remove_photo_tag calls.
C12_OneRowPerKey ==
    \A a, b \in photo_tags : Key(a) = Key(b) => a = b

\* two add_photo_tags calls for the same photo and tag overlapped: one has
\* stored its row, the other is about to commit a row with the same key
C12_Witness ==
    \E m \in CallIds :
        /\ manual[m].pc = "commit"
        /\ \E new \in manual[m].pending : \E row \in photo_tags : Key(row) = Key(new)

\* the ai associations of photo p to the tag named n, in the given tables
AiRows(p, n, rows, table) ==
    { row \in rows : row.photo_id = p /\ row.source = "ai" /\ TagNameOf(row, table) = n }

\* C13: an update_photo_ai_data call that returns True leaves every ai
\* association that existed as it was, confidence included, also when the
\* call names the tag with another confidence; an association that did not
\* exist is stored with the confidence of the call.
C13_FirstConfidenceWins ==
    [][\A r \in RunIds :
          (run[r].pc = "commit" /\ run'[r].update_ok)
            => \A k \in DOMAIN ArgTags(r) :
                  LET p == run[r].photo_id
                      n == ArgTags(r)[k].name
                      before == AiRows(p, n, photo_tags, tags)
                      after == AiRows(p, n, photo_tags', tags')
                  IN IF before # {}
                     THEN after = before
                     ELSE /\ after # {}
                          /\ \A row \in after : row.confidence = ArgTags(r)[k].confidence]_vars

\* a call has returned True although its list names, with another
\* confidence, a tag the photo was already associated with
C13_Witness ==
    \E r \in RunIds :
        /\ run[r].pc = "set_completed" /\ run[r].update_ok
        /\ \E k \in DOMAIN ArgTags(r) :
              \E row \in AiRows(run[r].photo_id, ArgTags(r)[k].name, photo_tags, tags) :
                  row.confidence # ArgTags(r)[k].confidence
        /\ \E k \in DOMAIN ArgTags(r) :
              \E row \in AiRows(run[r].photo_id, ArgTags(r)[k].name, photo_tags, tags) :
                  row.confidence = ArgTags(r)[k].confidence

\* C14: an update_photo_ai_data call that returns True has created a Tag
\* for exactly the names of its list that no Tag had, with the category of
\* the call, or "other" when the call has none; it leaves every existing Tag,
\* its category included, as it was, and no name has two Tags.
C14_TagCreatedOnlyIfAbsent ==
    [][\A r \in RunIds :
          (run[r].pc = "commit" /\ run'[r].update_ok)
            => /\ tags \subseteq tags'
               /\ \A t \in tags' \ tags :
                     /\ t.name \in ListNames(r)
                     /\ \A old \in tags : old.name # t.name
                     /\ t.category = IF Truthy(ArgCategory(r)) THEN ArgCategory(r)
                                     ELSE "other"
               /\ \A n \in ListNames(r) :
                     Cardinality({ t \in tags' : t.name = n }) = 1]_vars

\* a call without category has returned True: of the tags of its list, one
\* existed with the category "animal" and one was created with "other"
C14_Witness ==
    \E r \in RunIds :
        /\ run[r].pc = "set_completed" /\ run[r].update_ok
        /\ ~Truthy(ArgCategory(r))
        /\ \E t \in tags : t.name \in ListNames(r) /\ t.category = "animal"
        /\ \E t \in tags : t.name \in ListNames(r) /\ t.category = "other"
        /\ \E o \in RunIds \ {r} : run[o].pc = "done" /\ run[o].update_ok

\* C15: a photo row is stored with ai_status pending, and no step of a Run, of
\* an upload or of update_photo sets the ai_status of a stored photo that has
\* left pending back to pending
C15_PendingOnlyAtCreation ==
    [][\A p \in PhotoIds :
          /\ (~photos[p].exists /\ photos'[p].exists)
                => photos'[p].ai_status = "pending"
          /\ (photos[p].exists /\ photos[p].ai_status # "pending")
                => photos'[p].ai_status # "pending"]_vars

\* a photo that has failed is about to be claimed by a repeated Run
C15_Witness ==
    \E r \in RunIds :
        /\ run[r].pc = "claim"
        /\ run[r].photo_id \in PhotoIds
        /\ photos[run[r].photo_id].exists
        /\ photos[run[r].photo_id].ai_status = "failed"

\* the photo row of a Run that is under way, before and after one of its steps
RunStep(r) ==
    /\ run[r].pc \notin {"idle", "done"}
    /\ run'[r] # run[r]
    /\ run[r].photo_id \in PhotoIds
    /\ photos[run[r].photo_id].exists

SameFields(old, new, fields) == \A f \in fields : new[f] = old[f]

\* C16 as stated: no step of a Run changes the storage path, filename, owner,
\* EXIF data, taken_at or updated_at of its photo
C16_RunKeepsUpdatedAt ==
    [][\A r \in RunIds :
          RunStep(r) =>
             SameFields(photos[run[r].photo_id], photos'[run[r].photo_id],
                        {"exists", "storage_path", "filename", "user_id",
                         "exif_data", "taken_at", "updated_at"})]_vars

\* C16 amended: no step of a Run changes a field of its photo other than
\* caption, dominant_colors, ai_status, ai_error and updated_at
C16_RunChangesOnlyAiFields ==
    [][\A r \in RunIds :
          RunStep(r) =>
             SameFields(photos[run[r].photo_id], photos'[run[r].photo_id],
                        {"exists", "storage_path", "filename", "user_id",
                         "exif_data", "taken_at"})]_vars

\* a Run has completed a photo uploaded without a shooting time: the row has
\* the Run's caption and a new updated_at, and still no taken_at
C16_Witness ==
    \E p \in PhotoIds :
        /\ photos[p].exists
        /\ photos[p].ai_status = "completed"
        /\ photos[p].caption \in {"A", "B"}
        /\ photos[p].updated_at = "updated"
        /\ photos[p].taken_at = NULL
        /\ photos[p].storage_path = "ok"

\* C17: the upload only schedules the Run; the scheduled Run takes its first
\* step (the status write and the local stage) only when the response of the
\* upload has been produced, and the upload step itself leaves the photo
\* pending
C17_NoRunBeforeResponse ==
    [][\A r \in RunIds :
          /\ (run[r].pc = "scheduled" /\ run'[r] # run[r])
                => response[run[r].photo_id] = "sent"
          /\ (run[r].pc = "idle" /\ run'[r].pc = "scheduled")
                => /\ response'[run'[r].photo_id] = "pending"
                   /\ photos'[run'[r].photo_id].ai_status = "pending"]_vars

\* an upload has scheduled a Run and has not yet produced its response
C17_Witness ==
    \E p \in PhotoIds, r \in RunIds :
        /\ response[p] = "pending"
        /\ run[r].pc = "scheduled"
        /\ run[r].photo_id = p

\* C18: every step that stores a photo row schedules a Run for that photo
C18_EveryUploadSchedulesRun ==
    [][\A p \in PhotoIds :
          (~photos[p].exists /\ photos'[p].exists)
             => \E r \in RunIds : /\ run'[r].photo_id = p
                                  /\ run'[r].pc = "scheduled"]_vars

\* the Runs that have sent the request to the provider and wait for its reply
InApiCall == { r \in RunIds : run[r].pc = "in_api" }

\* C19: the Runs inside the external-API call are never more than the
\* configured maximum concurrency
C19_ApiCallsWithinMaxWorkers == Cardinality(InApiCall) <= settings.ai_max_workers

\* C20: whatever form the tags field of the reply has, the normalized tags
\* are the trimmed, non-empty elements of the field in their order: no element
\* is empty or has a space at either end, and a list gives what its elements
\* give once trimmed and filtered
C20_TagsTrimmedNonEmpty ==
    adapter.pc = "normalized" =>
        /\ \A k \in DOMAIN adapter.tags :
              /\ adapter.tags[k] # <<>>
              /\ Strip(adapter.tags[k]) = adapter.tags[k]
        /\ adapter.raw.kind = "list" => adapter.tags = StripNonEmpty(adapter.raw.value)

\* C21: the content of a reply that is no structured reply (a refusal, a
\* body json.loads rejects) is never a stored caption
C21_UnparsedReplyNeverCaption ==
    \A p \in PhotoIds : photos[p].exists => photos[p].caption # RefusalText

\* the orientation the aspect ratio width/height stands for: landscape above
\* 3/2, portrait below 7/10, square otherwise
OrientationOfRatio(image) ==
    IF image.width * 2 > image.height * 3 THEN "landscape"
    ELSE IF image.width * 10 < image.height * 7 THEN "portrait"
    ELSE "square"

\* C25: the tags the local analyzer emits for a loaded image hold exactly one
\* orientation tag; it has confidence 0.9 and the name the aspect ratio
\* stands for, and the caption has the same orientation word
C25_OneOrientationTag ==
    cv.pc = "analyzed" =>
        LET at == { i \in DOMAIN cv.tags :
                      cv.tags[i].name \in {"landscape", "portrait", "square"} }
        IN /\ Cardinality(at) = 1
           /\ \A i \in at :
                 /\ cv.tags[i].confidence = 90
                 /\ cv.tags[i].name = OrientationOfRatio(cv.image)
                 /\ cv.caption.orientation = cv.tags[i].name

\* an image of ratio exactly 1.5 has been analyzed: tag and caption say square
C25_Witness ==
    /\ cv.pc = "analyzed"
    /\ cv.image.width = 3 /\ cv.image.height = 2
    /\ cv.tags[1].name = "square"
    /\ cv.caption.orientation = "square"

\* the photo p has an ai association to the tag named n
HasAiTag(p, n, rows, table) ==
    \E row \in rows : /\ row.photo_id = p /\ row.source = "ai"
                       /\ TagNameOf(row, table) = n

\* C22: with only the local stage enabled, a Run on a landscape image whose
\* dominant color is red, whose update stored its result, sets ai_status to
\* completed with ai associations to the landscape tag and to the red tag
\* and with the five colors of the local result as dominant_colors
C22_LocalRunLandscapeRed ==
    [][\A r \in RunIds :
          (run[r].pc = "store_completed" /\ run'[r].pc = "finish"
             /\ run[r].update_ok /\ PhotoOf(r).exists
             /\ settings.ai_cv_enabled /\ ~settings.ai_api_enabled
             /\ Head(ImageAt(run[r].image_path).colors) = "red"
             /\ run[r].image_path # "missing")
            => LET p == run[r].photo_id
               IN /\ photos'[p].ai_status = "completed"
                  /\ HasAiTag(p, "landscape", photo_tags', tags')
                  /\ HasAiTag(p, "red", photo_tags', tags')
                  /\ photos'[p].dominant_colors = LocalResult.colors]_vars

\* a name occurs more than once in the tag list of a result
RepeatsName(result) ==
    \E j, k \in DOMAIN result.tags : j # k /\ result.tags[j].name = result.tags[k].name

\* C23: a call of update_photo_ai_data whose tag list repeats a name, for a
\* stored photo and with no failure of the database, returns True and leaves
\* exactly one 'ai' association for each name of the list, with the caption and
\* the colors of the call stored
C23_RepeatedNameStoredOnce ==
    [][\A r \in RunIds :
          LET result == run[r].final_result
              p == run[r].photo_id
          IN (/\ run[r].pc \in {"update", "upd_tag", "upd_insert", "commit"}
              /\ run'[r].pc = "set_completed"
              /\ RepeatsName(result)
              /\ photos'[p].exists
              /\ run'[r].update_error \notin {"db", "stale"})
             => /\ run'[r].update_ok
                /\ \A k \in DOMAIN result.tags :
                       Cardinality(AiRows(p, result.tags[k].name, photo_tags', tags')) = 1
                /\ photos'[p].caption = result.caption
                /\ photos'[p].dominant_colors = result.colors]_vars

\* C24: when the update_photo_ai_data calls that run at the same time are for
\* different photos, a call whose list names each tag once, for a stored photo
\* and with no failure of the database, returns True with its photo associated
\* to every tag of its list, and no two Tag rows have the same name
C24_ConcurrentNewTagBothAssociated ==
    [][\A r \in RunIds :
          LET result == run[r].final_result
              p == run[r].photo_id
          IN (/\ run[r].pc \in {"update", "upd_tag", "upd_insert", "commit"}
              /\ run'[r].pc = "set_completed"
              /\ ~RepeatsName(result)
              /\ photos'[p].exists
              /\ run'[r].update_error \notin {"db", "stale"})
             => /\ run'[r].update_ok
                /\ \A k \in DOMAIN result.tags :
                       AiRows(p, result.tags[k].name, photo_tags', tags') # {}
                /\ \A t, u \in tags' : t.name = u.name => t = u]_vars

\* the longer and the shorter edge of a size
Longest(size) == IF size.width > size.height THEN size.width ELSE size.height
Shortest(size) == IF size.width > size.height THEN size.height ELSE size.width

\* C26: when opening, resizing and saving the image raise nothing, the encoded
\* image has no edge above max_size: an image whose longest edge is above
\* max_size is sent with longest edge max_size and the other edge scaled in
\* proportion, rounded down and at least 1; any other image is sent as it is
C26_SubmittedWithinMax ==
    (api_image.pc = "encoded" /\ ~api_image.failed)
        => /\ Longest(api_image.sent) <= max_size
           /\ IF Longest(api_image) > max_size
              THEN /\ Longest(api_image.sent) = max_size
                   /\ Shortest(api_image.sent) =
                         (IF (Shortest(api_image) * max_size) \div Longest(api_image) < 1
                          THEN 1
                          ELSE (Shortest(api_image) * max_size) \div Longest(api_image))
                   /\ (api_image.sent.width > api_image.sent.height)
                         = (api_image.width > api_image.height)
              ELSE api_image.sent = [width |-> api_image.width, height |-> api_image.height]

\* C27: a stored photo whose ai_status is completed has no ai_error, whatever
\* the interleaving of the Runs for it
C27_CompletedHasNoError ==
    \A p \in PhotoIds :
        (photos[p].exists /\ photos[p].ai_status = "completed")
            => photos[p].ai_error = NoError

\* the session of the call holds no write
NothingHeld(rec) ==
    /\ rec.tx_caption = Keep /\ rec.tx_colors = Keep
    /\ rec.tx_tags = {} /\ rec.tx_flushed = {} /\ rec.tx_pending = <<>>

\* C28: with no other call running, every step of an update_photo_ai_data
\* call except a commit that succeeds leaves the photos, tags and photo_tags
\* tables as they are, and a call that returns False has rolled back: its
\* session holds none of the writes it made or flushed
C28_FailedUpdateStoresNothing ==
    [][\A r \in RunIds :
          (run[r].pc \in {"update", "upd_tag", "upd_insert", "commit"}
             /\ run'[r] # run[r])
            => /\ (run'[r].pc = "set_completed" /\ run'[r].update_ok)
                      \/ UNCHANGED <<photos, tags, photo_tags>>
               /\ (run'[r].pc = "set_completed" /\ ~run'[r].update_ok)
                      => NothingHeld(run'[r])]_vars

\* a call with the list <<cat, cat>> has failed at its commit, after it had
\* flushed the Tag it created for cat: no such Tag and no caption is stored
C28_Witness ==
    \E r \in RunIds :
        /\ run[r].pc = "set_completed" /\ ~run[r].update_ok
        /\ run[r].update_error = "integrity"
        /\ RepeatsName(run[r].final_result)
        /\ PhotoOf(r).exists /\ PhotoOf(r).caption # run[r].final_result.caption
        /\ \A t \in tags : t.name # "cat"
        /\ NothingHeld(run[r])

\* the result carries a value for the field: a text of one character or more
NonEmpty(v) == v # NULL /\ v # ""

\* the step is the commit of Run r's update_photo_ai_data call
Commits(r) ==
    run[r].pc = "commit" /\ run'[r].pc = "set_completed" /\ run'[r].update_ok

\* C29: a step of a Run changes the stored caption only when it commits an
\* update whose caption is not empty, to that caption, and the stored
\* dominant_colors only when it commits an update whose colors are not empty,
\* to those colors; with an empty value the stored one stays
C29_EmptyValueKeepsStored ==
    [][\A r \in RunIds :
          LET p == run[r].photo_id
          IN (run'[r] # run[r] /\ p \in PhotoIds /\ photos[p].exists)
             => /\ photos'[p].caption =
                      IF Commits(r) /\ NonEmpty(ArgCaption(r)) THEN ArgCaption(r)
                      ELSE photos[p].caption
                /\ photos'[p].dominant_colors =
                      IF Commits(r) /\ NonEmpty(ArgColors(r)) THEN ArgColors(r)
                      ELSE photos[p].dominant_colors]_vars

\* a Run has committed a result with an empty caption and empty colors for a
\* photo uploaded with the caption "U", which is still stored
C29_Witness ==
    \E r \in RunIds :
        /\ run[r].pc = "set_completed" /\ run[r].update_ok
        /\ ~NonEmpty(ArgCaption(r)) /\ ~NonEmpty(ArgColors(r))
        /\ PhotoOf(r).caption = "U" /\ PhotoOf(r).dominant_colors = NULL

\* the associations of one source in a photo_tags table
OfSource(rows, source) == { row \in rows : row.source = source }

\* C30: a step of an update_photo_ai_data call leaves every 'manual'
\* association as it is, and every other step (add_photo_tags, its commit,
\* remove_photo_tag) leaves every 'ai' association as it is
C30_AiAndManualApart ==
    [][/\ run' # run => OfSource(photo_tags', "manual") = OfSource(photo_tags, "manual")
       /\ run' = run => OfSource(photo_tags', "ai") = OfSource(photo_tags, "ai")]_vars

\* a photo has an 'ai' and a 'manual' association with the same tag, and an
\* update_photo_ai_data call and an add_photo_tags call have ended
C30_Witness ==
    /\ \E a \in OfSource(photo_tags, "ai"), b \in OfSource(photo_tags, "manual") :
          a.photo_id = b.photo_id /\ a.tag_id = b.tag_id
    /\ \E r \in RunIds : run[r].pc = "done" /\ run[r].update_ok
    /\ \E m \in CallIds : manual[m].pc = "done"
====
